---- MODULE Spec2Model ----
(***************************************************************************)
(* AParkourGameCharacter (Source/ParkourGame/ParkourGameCharacter.cpp).    *)
(*                                                                         *)
(* The character is driven by the engine's game thread: input handlers     *)
(* (MoveForward, MoveRight, StartSprint, StopSprint, Jump, StopJumping,    *)
(* TouchStarted, TouchStopped) and Tick run one after the other, never     *)
(* concurrently.  Tick is three steps in program order: Super::Tick, then  *)
(* ForwardTrace, then HeightTrace; no handler runs between them.           *)
(*                                                                         *)
(* Lengths are whole engine units; a vector is a triple <<X, Y, Z>>.       *)
(* Movement input directions are expressed in the control-yaw frame:       *)
(* X is "forward", Y is "right".                                           *)
(***************************************************************************)
EXTENDS Integers, Sequences, FiniteSets

(***************************************************************************)
(* Bounds of the model.                                                    *)
(***************************************************************************)
\* pending movement input is accumulated up to this magnitude per axis
MaxInput == 1
\* the hips socket is sampled at heights 0..MaxHips
MaxHips == 1
\* ledge heights are sampled up to Margin units on either side of each end
\* of the height band
Margin == 1

(***************************************************************************)
(* Program constants.                                                      *)
(***************************************************************************)
SprintSpeed == 1000
WalkSpeed == 600
BandMin == -50
BandMax == 0

(***************************************************************************)
(* Vectors and hit results.                                                *)
(***************************************************************************)
ZeroVector == <<0, 0, 0>>

VecAdd(a, b) == <<a[1] + b[1], a[2] + b[2], a[3] + b[3]>>

VecScale(a, k) == <<a[1] * k, a[2] * k, a[3] * k>>

Sign(n) == IF n > 0 THEN 1 ELSE IF n < 0 THEN -1 ELSE 0

\* FHitResult hit( ForceInit ): everything zero, no blocking hit.  A trace that
\* finds nothing leaves the result in this state.
FHitResultInit == [bBlockingHit |-> FALSE, Normal |-> ZeroVector, Location |-> ZeroVector]

\* FRotationMatrix( YawRotation ).GetUnitAxis( EAxis::X ) and ( EAxis::Y )
ForwardAxis == <<1, 0, 0>>
RightAxis == <<0, 1, 0>>

(***************************************************************************)
(* Inputs: what the engine can answer to the two traces of a frame, the    *)
(* height of the hips socket, and the axis values of the input bindings.   *)
(***************************************************************************)
AxisValues == {-1, 0, 1}

WallNormals == {<<-1, 0, 0>>, <<0, -1, 0>>}
WallLocations == {<<100, 0, 50>>}

ForwardHits ==
    {FHitResultInit} \cup
    {[bBlockingHit |-> TRUE, Normal |-> n, Location |-> l] :
        n \in WallNormals, l \in WallLocations}

HipsHeights == 0..MaxHips

BandSamples ==
    ((BandMin - Margin)..(BandMin + Margin)) \cup ((BandMax - Margin)..(BandMax + Margin))

LedgeHeights == {h + d : h \in HipsHeights, d \in BandSamples}

HeightHits ==
    {FHitResultInit} \cup
    {[bBlockingHit |-> TRUE, Normal |-> <<0, 0, 1>>, Location |-> <<75, 0, z>>] :
        z \in LedgeHeights}

\* what a member FVector holds after FVector's default constructor, which
\* initialises nothing
IndeterminateVectors == {ZeroVector, <<-1, 0, 0>>}

(***************************************************************************)
(* State.                                                                  *)
(***************************************************************************)
VARIABLES
    m_wallNormal,       \* FVector member
    m_wallLocation,     \* FVector member
    m_isClimbing,       \* bool member
    MovementMode,       \* GetCharacterMovement()->MovementMode
    Velocity,           \* GetCharacterMovement()->Velocity
    MaxWalkSpeed,       \* GetCharacterMovement()->MaxWalkSpeed
    montage,            \* the mesh's anim instance: the active montage
    ControlInputVector, \* movement input added since the engine last consumed it
    bPressedJump,       \* ACharacter::bPressedJump
    hasController,      \* Controller != nullptr
    forwardHit,         \* ForwardTrace's local hit: the result of its latest trace
    heightHit,          \* HeightTrace's local hit: the result of its latest trace
    hipsZ,              \* Z of the HipsSocket at the latest HeightTrace
    pc,                 \* position inside Tick, "idle" between handlers
    traces,             \* the traces cast so far in the current frame, in order
    climbingAtTick,     \* m_isClimbing as it was when the current frame's Tick began
    lastSprintEvent     \* the most recent Sprint action event

vars == <<m_wallNormal, m_wallLocation, m_isClimbing, MovementMode, Velocity,
          MaxWalkSpeed, montage, ControlInputVector, bPressedJump, hasController,
          forwardHit, heightHit, hipsZ, pc, traces, climbingAtTick,
          lastSprintEvent>>

NoMontage == [asset |-> "None", position |-> 0, bPlaying |-> FALSE]

NoSprintEvent == [kind |-> "none", whileClimbing |-> FALSE]

Init ==
    /\ m_wallNormal \in IndeterminateVectors
    /\ m_wallLocation \in IndeterminateVectors
    /\ m_isClimbing = FALSE
    /\ MovementMode = "Walking"
    /\ Velocity = ZeroVector
    /\ MaxWalkSpeed \in {WalkSpeed, SprintSpeed}
    /\ montage = NoMontage
    /\ ControlInputVector = ZeroVector
    /\ bPressedJump = FALSE
    /\ hasController \in BOOLEAN
    /\ forwardHit = FHitResultInit
    /\ heightHit = FHitResultInit
    /\ hipsZ = 0
    /\ pc = "idle"
    /\ traces = <<>>
    /\ climbingAtTick = FALSE
    /\ lastSprintEvent = NoSprintEvent


(***************************************************************************)
(* Engine services the class calls.                                        *)
(***************************************************************************)
\* UKismetMathLibrary::InRange_FloatFloat( Value, Min, Max, InclusiveMin, InclusiveMax )
InRange_FloatFloat(Value, Min, Max, InclusiveMin, InclusiveMax) ==
    /\ IF InclusiveMin THEN Value >= Min ELSE Value > Min
    /\ IF InclusiveMax THEN Value <= Max ELSE Value < Max

\* PlayAnimMontage( Climb, 1.0f ): the montage becomes the active one and plays
\* from its start
PlayAnimMontage(asset) == [asset |-> asset, position |-> 0, bPlaying |-> TRUE]

\* GetMesh()->GetAnimInstance()->Montage_Pause(): the active montage stops advancing
Montage_Pause(m) == [m EXCEPT !.bPlaying = FALSE]

\* AddMovementInput( Direction, Value ): ControlInputVector += Direction * Value
AddMovementInput(input, Direction, Value) == VecAdd(input, VecScale(Direction, Value))

InputInBound(v) == \A i \in 1..3 : v[i] >= -MaxInput /\ v[i] <= MaxInput

(***************************************************************************)
(* Tick.                                                                   *)
(***************************************************************************)
\* the engine's work of a frame before the two traces: the pending movement
\* input is consumed and turned into velocity (with no input the character
\* keeps its velocity or has braked to rest)
EngineFrame ==
    /\ Velocity' \in
         IF ControlInputVector # ZeroVector
         THEN {<<Sign(ControlInputVector[1]), Sign(ControlInputVector[2]), 0>>}
         ELSE {Velocity, ZeroVector}
    /\ ControlInputVector' = ZeroVector

Tick_SkipForwardWhenClimbing ==
    /\ pc = "idle"
    /\ EngineFrame
    /\ traces' = <<>>
    /\ climbingAtTick' = m_isClimbing
    /\ pc' = IF m_isClimbing THEN "HeightTrace" ELSE "ForwardTrace"
    /\ UNCHANGED <<m_wallNormal, m_wallLocation, m_isClimbing, MovementMode,
                   MaxWalkSpeed, montage, bPressedJump, hasController,
                   forwardHit, heightHit, hipsZ, lastSprintEvent>>

\* Tick up to its first statement, Super::Tick( DeltaTime ); ForwardTrace() and
\* HeightTrace() follow in that order
Tick ==
    /\ pc = "idle"
    /\ EngineFrame
    /\ traces' = <<>>
    /\ climbingAtTick' = m_isClimbing
    /\ pc' = "ForwardTrace"
    /\ UNCHANGED <<m_wallNormal, m_wallLocation, m_isClimbing, MovementMode,
                   MaxWalkSpeed, montage, bPressedJump, hasController,
                   forwardHit, heightHit, hipsZ, lastSprintEvent>>

ForwardTrace_KeepOnMiss ==
    /\ pc = "ForwardTrace"
    /\ \E hit \in ForwardHits :
         /\ forwardHit' = hit
         /\ IF hit.bBlockingHit
            THEN /\ m_wallNormal' = hit.Normal
                 /\ m_wallLocation' = hit.Location
            ELSE UNCHANGED <<m_wallNormal, m_wallLocation>>
    /\ traces' = Append(traces, "ForwardTrace")
    /\ pc' = "HeightTrace"
    /\ UNCHANGED <<m_isClimbing, MovementMode, Velocity, MaxWalkSpeed, montage,
                   ControlInputVector, bPressedJump, hasController, heightHit,
                   hipsZ, climbingAtTick, lastSprintEvent>>

ForwardTrace ==
    /\ pc = "ForwardTrace"
    /\ \E hit \in ForwardHits :
         /\ forwardHit' = hit
         /\ m_wallNormal' = hit.Normal
         /\ m_wallLocation' = hit.Location
    /\ traces' = Append(traces, "ForwardTrace")
    /\ pc' = "HeightTrace"
    /\ UNCHANGED <<m_isClimbing, MovementMode, Velocity, MaxWalkSpeed, montage,
                   ControlInputVector, bPressedJump, hasController, heightHit,
                   hipsZ, climbingAtTick, lastSprintEvent>>

Hang_NoFlag ==
    /\ montage' = Montage_Pause(PlayAnimMontage("Climb"))
    /\ UNCHANGED m_isClimbing

Hang ==
    /\ montage' = Montage_Pause(PlayAnimMontage("Climb"))
    /\ m_isClimbing' = TRUE

LedgeInBand_ExclusiveMin(hit, hips) ==
    InRange_FloatFloat(hit.Location[3] - hips, BandMin, BandMax, FALSE, TRUE)

\* hit.Location.Z - GetMesh()->GetSocketLocation( "HipsSocket" ).Z within [-50, 0]
LedgeInBand(hit, hips) ==
    InRange_FloatFloat(hit.Location[3] - hips, BandMin, BandMax, TRUE, TRUE)

StartClimb_NoFlying ==
    /\ UNCHANGED MovementMode
    /\ Velocity' = ZeroVector
    /\ Hang

\* SetMovementMode( MOVE_Flying ); StopMovementImmediately(); Hang();
StartClimb ==
    /\ MovementMode' = "Flying"
    /\ Velocity' = ZeroVector
    /\ Hang

\* what HeightTrace does besides its climb decision
HeightTraceReturn ==
    /\ traces' = Append(traces, "HeightTrace")
    /\ pc' = "idle"
    /\ UNCHANGED <<m_wallNormal, m_wallLocation, MaxWalkSpeed, ControlInputVector,
                   bPressedJump, hasController, forwardHit, climbingAtTick,
                   lastSprintEvent>>

HeightTrace_NoHitCheck ==
    /\ pc = "HeightTrace"
    /\ \E hit \in HeightHits, hips \in HipsHeights :
             /\ heightHit' = hit
             /\ hipsZ' = hips
         /\ IF LedgeInBand(hit, hips)
            THEN StartClimb
            ELSE UNCHANGED <<MovementMode, Velocity, montage, m_isClimbing>>
    /\ HeightTraceReturn

HeightTrace_GuardedByClimbing ==
    /\ pc = "HeightTrace"
    /\ \E hit \in HeightHits, hips \in HipsHeights :
         /\ heightHit' = hit
         /\ hipsZ' = hips
         /\ IF hit.bBlockingHit /\ ~m_isClimbing
            THEN IF LedgeInBand(hit, hips)
                 THEN StartClimb
                 ELSE UNCHANGED <<MovementMode, Velocity, montage, m_isClimbing>>
            ELSE UNCHANGED <<MovementMode, Velocity, montage, m_isClimbing>>
    /\ HeightTraceReturn

HeightTrace_DropOnMiss ==
    /\ pc = "HeightTrace"
    /\ \E hit \in HeightHits, hips \in HipsHeights :
         /\ heightHit' = hit
         /\ hipsZ' = hips
         /\ IF hit.bBlockingHit
            THEN IF LedgeInBand(hit, hips)
                 THEN StartClimb
                 ELSE UNCHANGED <<MovementMode, Velocity, montage, m_isClimbing>>
            ELSE /\ m_isClimbing' = FALSE
                 /\ UNCHANGED <<MovementMode, Velocity, montage>>
    /\ HeightTraceReturn

HeightTrace ==
    /\ pc = "HeightTrace"
    /\ \E hit \in HeightHits, hips \in HipsHeights :
         /\ heightHit' = hit
         /\ hipsZ' = hips
         /\ IF hit.bBlockingHit
            THEN IF LedgeInBand(hit, hips)
                 THEN StartClimb
                 ELSE UNCHANGED <<MovementMode, Velocity, montage, m_isClimbing>>
            ELSE UNCHANGED <<MovementMode, Velocity, montage, m_isClimbing>>
    /\ HeightTraceReturn

(***************************************************************************)
(* Input handlers.                                                         *)
(***************************************************************************)
MoveForward(Value) ==
    /\ pc = "idle"
    /\ IF hasController /\ Value # 0
       THEN /\ InputInBound(AddMovementInput(ControlInputVector, ForwardAxis, Value))
            /\ ControlInputVector' = AddMovementInput(ControlInputVector, ForwardAxis, Value)
       ELSE UNCHANGED ControlInputVector
    /\ UNCHANGED <<m_wallNormal, m_wallLocation, m_isClimbing, MovementMode, Velocity,
                   MaxWalkSpeed, montage, bPressedJump, hasController, forwardHit,
                   heightHit, hipsZ, pc,
                   traces, climbingAtTick, lastSprintEvent>>

MoveRight_NoClimbCheck(Value) ==
    /\ pc = "idle"
    /\ IF hasController /\ Value # 0
       THEN /\ InputInBound(AddMovementInput(ControlInputVector, RightAxis, Value))
            /\ ControlInputVector' = AddMovementInput(ControlInputVector, RightAxis, Value)
       ELSE UNCHANGED ControlInputVector
    /\ UNCHANGED <<m_wallNormal, m_wallLocation, m_isClimbing, MovementMode, Velocity,
                   MaxWalkSpeed, montage, bPressedJump, hasController, forwardHit,
                   heightHit, hipsZ, pc,
                   traces, climbingAtTick, lastSprintEvent>>

MoveRight(Value) ==
    /\ pc = "idle"
    /\ IF hasController /\ Value # 0 /\ m_isClimbing = FALSE
       THEN /\ InputInBound(AddMovementInput(ControlInputVector, RightAxis, Value))
            /\ ControlInputVector' = AddMovementInput(ControlInputVector, RightAxis, Value)
       ELSE UNCHANGED ControlInputVector
    /\ UNCHANGED <<m_wallNormal, m_wallLocation, m_isClimbing, MovementMode, Velocity,
                   MaxWalkSpeed, montage, bPressedJump, hasController, forwardHit,
                   heightHit, hipsZ, pc,
                   traces, climbingAtTick, lastSprintEvent>>

StartSprint_NotWhileClimbing ==
    /\ pc = "idle"
    /\ MaxWalkSpeed' = IF m_isClimbing THEN MaxWalkSpeed ELSE SprintSpeed
    /\ lastSprintEvent' = [kind |-> "pressed", whileClimbing |-> m_isClimbing]
    /\ UNCHANGED <<m_wallNormal, m_wallLocation, m_isClimbing, MovementMode, Velocity,
                   montage, ControlInputVector, bPressedJump, hasController, forwardHit,
                   heightHit, hipsZ, pc, traces, climbingAtTick>>

StartSprint ==
    /\ pc = "idle"
    /\ MaxWalkSpeed' = SprintSpeed
    /\ lastSprintEvent' = [kind |-> "pressed", whileClimbing |-> m_isClimbing]
    /\ UNCHANGED <<m_wallNormal, m_wallLocation, m_isClimbing, MovementMode, Velocity,
                   montage, ControlInputVector, bPressedJump, hasController, forwardHit,
                   heightHit, hipsZ, pc, traces, climbingAtTick>>

StopSprint ==
    /\ pc = "idle"
    /\ MaxWalkSpeed' = WalkSpeed
    /\ lastSprintEvent' = [kind |-> "released", whileClimbing |-> m_isClimbing]
    /\ UNCHANGED <<m_wallNormal, m_wallLocation, m_isClimbing, MovementMode, Velocity,
                   montage, ControlInputVector, bPressedJump, hasController, forwardHit,
                   heightHit, hipsZ, pc, traces, climbingAtTick>>

\* ACharacter::Jump, bound to the Jump action's press
Jump ==
    /\ pc = "idle"
    /\ bPressedJump' = TRUE
    /\ UNCHANGED <<m_wallNormal, m_wallLocation, m_isClimbing, MovementMode, Velocity,
                   MaxWalkSpeed, montage, ControlInputVector, hasController, forwardHit,
                   heightHit, hipsZ, pc, traces, climbingAtTick, lastSprintEvent>>

\* ACharacter::StopJumping, bound to the Jump action's release
StopJumping ==
    /\ pc = "idle"
    /\ bPressedJump' = FALSE
    /\ UNCHANGED <<m_wallNormal, m_wallLocation, m_isClimbing, MovementMode, Velocity,
                   MaxWalkSpeed, montage, ControlInputVector, hasController, forwardHit,
                   heightHit, hipsZ, pc, traces, climbingAtTick, lastSprintEvent>>

TouchStarted == Jump

TouchStopped == StopJumping

Next ==
    \/ Tick
    \/ ForwardTrace
    \/ HeightTrace
    \/ \E Value \in AxisValues : MoveForward(Value)
    \/ \E Value \in AxisValues : MoveRight(Value)
    \/ StartSprint
    \/ StopSprint
    \/ Jump
    \/ StopJumping
    \/ TouchStarted
    \/ TouchStopped

Spec == Init /\ [][Next]_vars

(***************************************************************************)
(* Properties.                                                             *)
(***************************************************************************)
BothTraces == <<"ForwardTrace", "HeightTrace">>

\* a frame's Tick has run to its end
TickDone == pc = "idle" /\ traces = BothTraces

\* the height of the downward hit above the hips socket
HeightDiff == heightHit.Location[3] - hipsZ

\* the downward trace hit a ledge between 50 units below the hips and the hips
LedgeDetected == heightHit.bBlockingHit /\ HeightDiff >= -50 /\ HeightDiff <= 0

ClimbPaused == [asset |-> "Climb", position |-> 0, bPlaying |-> FALSE]

\* C1: HeightTrace sets the movement mode to Flying, zeroes the velocity, starts
\* and pauses the Climb montage and sets m_isClimbing exactly when the downward
\* trace hit and the hit is between -50 and 0 (both included) above the hips
\* socket; otherwise it has none of these effects.
C1_ClimbIffLedgeInBand ==
    [][pc = "HeightTrace" =>
         IF LedgeDetected'
         THEN /\ MovementMode' = "Flying"
              /\ Velocity' = ZeroVector
              /\ montage' = ClimbPaused
              /\ m_isClimbing' = TRUE
         ELSE UNCHANGED <<MovementMode, Velocity, montage, m_isClimbing>>]_vars

C1_Witness ==
    /\ TickDone
    /\ ~climbingAtTick
    /\ heightHit.bBlockingHit
    /\ HeightDiff = -50
    /\ m_isClimbing
    /\ MovementMode = "Flying"
    /\ montage = ClimbPaused

\* C2 as stated: the mode after a Tick is a function of that frame's two trace
\* results.  From the grounded state the mode after the Tick is climbing exactly
\* when a ledge is detected, so this says that after every Tick the character
\* climbs exactly when that frame's traces detected a ledge.
C2_ModeDeterminedByTraces ==
    [][pc = "HeightTrace" => (m_isClimbing' <=> LedgeDetected')]_vars

\* C2 amended: the mode after a Tick is determined by the mode before it and
\* the downward trace: the character climbs after the Tick exactly when it
\* climbed before or a ledge is detected; no other step of Tick changes it.
C2_ModeDeterminedByTracesAndMode ==
    [][m_isClimbing' <=>
         IF pc = "HeightTrace" THEN m_isClimbing \/ LedgeDetected' ELSE m_isClimbing]_vars

C2_Witness ==
    /\ TickDone
    /\ climbingAtTick
    /\ ~LedgeDetected
    /\ ~forwardHit.bBlockingHit
    /\ m_isClimbing

\* C3: every Tick, climbing or not, casts the forward trace and then the
\* downward trace, and the wall normal and location hold the forward trace's
\* result when the downward trace decides.
C3_TwoTracesInOrder ==
    [][/\ (pc = "idle" /\ pc' # "idle") => (pc' = "ForwardTrace" /\ traces' = <<>>)
       /\ pc = "ForwardTrace" =>
            /\ pc' = "HeightTrace"
            /\ traces' = <<"ForwardTrace">>
            /\ m_wallNormal' = forwardHit'.Normal
            /\ m_wallLocation' = forwardHit'.Location
       /\ pc = "HeightTrace" =>
            /\ pc' = "idle"
            /\ traces' = BothTraces
            /\ m_wallNormal = forwardHit.Normal
            /\ m_wallLocation = forwardHit.Location]_vars

C3_Witness ==
    /\ TickDone
    /\ climbingAtTick
    /\ forwardHit.bBlockingHit
    /\ m_wallNormal = forwardHit.Normal
    /\ m_wallLocation = forwardHit.Location

\* C4: when the downward trace reports no hit, HeightTrace leaves m_isClimbing,
\* the movement mode, the velocity and the montage as they were.
C4_NoHitNoChange ==
    [][(pc = "HeightTrace" /\ ~heightHit'.bBlockingHit) =>
         UNCHANGED <<m_isClimbing, MovementMode, Velocity, montage>>]_vars

C4_Witness ==
    /\ TickDone
    /\ ~heightHit.bBlockingHit
    /\ hipsZ = 0
    /\ Velocity # ZeroVector
    /\ ~m_isClimbing
    /\ MovementMode = "Walking"
    /\ montage = NoMontage

\* C5: MaxWalkSpeed is 1000 when the most recent Sprint event was a press and
\* 600 when it was a release, climbing or not, and only StartSprint and
\* StopSprint change it.
C5_SprintToggle ==
    /\ [](lastSprintEvent.kind = "pressed" => MaxWalkSpeed = 1000)
    /\ [](lastSprintEvent.kind = "released" => MaxWalkSpeed = 600)
    /\ [][MaxWalkSpeed' # MaxWalkSpeed => (StartSprint \/ StopSprint)]_vars

C5_Witness ==
    /\ m_isClimbing
    /\ lastSprintEvent = [kind |-> "pressed", whileClimbing |-> TRUE]
    /\ MaxWalkSpeed = 1000
    /\ TickDone

\* C6: a HeightTrace that detects a ledge while the character already climbs
\* applies the climb transition again, and ends in the state the first
\* transition ended in: climbing, Flying, at rest, Climb montage paused at its
\* start.
C6_ClimbReapplied ==
    [][(pc = "HeightTrace" /\ m_isClimbing /\ LedgeDetected') =>
         /\ m_isClimbing' = TRUE
         /\ MovementMode' = "Flying"
         /\ Velocity' = ZeroVector
         /\ montage' = ClimbPaused]_vars

C6_Witness ==
    /\ TickDone
    /\ climbingAtTick
    /\ LedgeDetected
    /\ m_isClimbing
    /\ MovementMode = "Flying"
    /\ Velocity = ZeroVector
    /\ montage = ClimbPaused

\* C7: ForwardTrace stores the normal and location of the forward trace's
\* result, hit or not, and leaves m_isClimbing, the movement mode and
\* MaxWalkSpeed alone; HeightTrace leaves the wall normal and location alone.
C7_ForwardTraceRecordsWall ==
    [][/\ pc = "ForwardTrace" =>
            /\ m_wallNormal' = forwardHit'.Normal
            /\ m_wallLocation' = forwardHit'.Location
            /\ UNCHANGED <<m_isClimbing, MovementMode, MaxWalkSpeed>>
       /\ pc = "HeightTrace" => UNCHANGED <<m_wallNormal, m_wallLocation>>]_vars

C7_Witness ==
    /\ pc = "HeightTrace"
    /\ ~forwardHit.bBlockingHit
    /\ m_wallNormal = ZeroVector
    /\ m_wallLocation = ZeroVector
    /\ m_isClimbing

\* C8: m_isClimbing is false after construction, and once true it stays true
\* whatever runs next.
C8_ClimbingLatch ==
    /\ m_isClimbing = FALSE
    /\ [][m_isClimbing => m_isClimbing']_vars

C8_Witness ==
    /\ TickDone
    /\ climbingAtTick
    /\ heightHit.bBlockingHit
    /\ ~LedgeDetected
    /\ m_isClimbing
    /\ bPressedJump
    /\ lastSprintEvent.whileClimbing

\* C9: MoveRight adds no movement input while the character climbs; MoveForward
\* adds Value along the forward axis whenever there is a controller and Value
\* is not 0, climbing or not; neither adds input when Value is 0 or there is
\* no controller.
C9_MoveInputGating ==
    [][\A Value \in AxisValues :
         /\ MoveRight(Value) =>
              IF hasController /\ Value # 0 /\ ~m_isClimbing
              THEN ControlInputVector' =
                     <<ControlInputVector[1], ControlInputVector[2] + Value,
                       ControlInputVector[3]>>
              ELSE UNCHANGED ControlInputVector
         /\ MoveForward(Value) =>
              IF hasController /\ Value # 0
              THEN ControlInputVector' =
                     <<ControlInputVector[1] + Value, ControlInputVector[2],
                       ControlInputVector[3]>>
              ELSE UNCHANGED ControlInputVector]_vars

C9_Witness ==
    /\ pc = "idle"
    /\ m_isClimbing
    /\ hasController
    /\ ControlInputVector[1] # 0
    /\ ControlInputVector[2] = 0

\* C10: whenever m_isClimbing is true the movement mode is Flying, and the
\* movement mode is never changed to anything but Flying.
C10_ClimbingImpliesFlying ==
    /\ [](m_isClimbing => MovementMode = "Flying")
    /\ [][MovementMode' # MovementMode => MovementMode' = "Flying"]_vars

C10_Witness ==
    /\ pc = "idle"
    /\ m_isClimbing
    /\ MovementMode = "Flying"
    /\ ControlInputVector # ZeroVector
    /\ lastSprintEvent.whileClimbing
    /\ bPressedJump

====
